---------------------------- MODULE Spec2Model ----------------------------
(***************************************************************************)
(* A model of three-span: the Span strategy compiler (set, val, lerp,      *)
(* random, randomLerp, curve, array, gradient, timer, copy, clone,         *)
(* toJSON), the temporal remapper (_timerWrapper), the keyframe and        *)
(* gradient interpolators and the easing table.                            *)
(*                                                                         *)
(* Numbers are JavaScript doubles in the source.  Here a number is an      *)
(* integer count of 1/Unit, so 0.25 is 250 and 10 is 10000; NaN and        *)
(* Infinity are two reserved values and every arithmetic operator and      *)
(* comparison treats them as JavaScript does.  Configurations are given in *)
(* their JSON form (plain numbers and arrays), as toJSON and fromJSON      *)
(* exchange them, so _convert always builds a new value object.            *)
(***************************************************************************)
EXTENDS Integers, Sequences, FiniteSets, TLC

(***************************************************************************)
(* Numbers                                                                 *)
(***************************************************************************)
Unit == 1000

NaN == 0 - 2000000000

Infinity == 2000000000

Undefined == 0 - 1999999999

IsNumber(a) == a # NaN /\ a # Undefined

IsFinite(a) == IsNumber(a) /\ a # Infinity /\ a # 0 - Infinity

Num(n) == n * Unit

Neg(a) == IF ~IsNumber(a) THEN NaN ELSE 0 - a

Add(a, b) ==
  IF ~IsNumber(a) \/ ~IsNumber(b) THEN NaN
  ELSE IF ~IsFinite(a) THEN (IF ~IsFinite(b) /\ b # a THEN NaN ELSE a)
  ELSE IF ~IsFinite(b) THEN b
  ELSE a + b

Sub(a, b) == Add(a, Neg(b))

\* a * b, rounded to the nearest 1/Unit
Mul(a, b) ==
  IF ~IsNumber(a) \/ ~IsNumber(b) THEN NaN
  ELSE IF ~IsFinite(a) \/ ~IsFinite(b)
    THEN (IF a = 0 \/ b = 0 THEN NaN
          ELSE IF (a > 0) = (b > 0) THEN Infinity ELSE 0 - Infinity)
  ELSE LET q == a \div Unit
           r == a % Unit
       IN  q * b + ((r * b + (Unit \div 2)) \div Unit)

\* a / b, rounded to the nearest 1/Unit
Div(a, b) ==
  IF ~IsNumber(a) \/ ~IsNumber(b) THEN NaN
  ELSE IF ~IsFinite(b) THEN (IF ~IsFinite(a) THEN NaN ELSE 0)
  ELSE IF ~IsFinite(a) THEN (IF b >= 0 THEN a ELSE 0 - a)
  ELSE IF b = 0
    THEN (IF a = 0 THEN NaN ELSE IF a > 0 THEN Infinity ELSE 0 - Infinity)
  ELSE IF b > 0 THEN (2 * a * Unit + b) \div (2 * b)
  ELSE (2 * (0 - a) * Unit + (0 - b)) \div (2 * (0 - b))

\* the comparisons are false as soon as one side is NaN or undefined
Lt(a, b) == IsNumber(a) /\ IsNumber(b) /\ a < b

Le(a, b) == IsNumber(a) /\ IsNumber(b) /\ a <= b

Gt(a, b) == Lt(b, a)

Ge(a, b) == Le(b, a)

Abs(a) == IF ~IsNumber(a) THEN NaN ELSE IF a < 0 THEN 0 - a ELSE a

MathMax(a, b) == IF ~IsNumber(a) \/ ~IsNumber(b) THEN NaN ELSE IF a >= b THEN a ELSE b

MathMin(a, b) == IF ~IsNumber(a) \/ ~IsNumber(b) THEN NaN ELSE IF a <= b THEN a ELSE b

\* Math.round: the nearest integer, a tie going up
MathRound(a) ==
  IF ~IsFinite(a) THEN a ELSE ((a + (Unit \div 2)) \div Unit) * Unit

RECURSIVE Pow(_, _)
Pow(a, n) == IF n = 0 THEN Num(1) ELSE Mul(a, Pow(a, n - 1))

RECURSIVE ISqrt(_, _, _)
ISqrt(n, lo, hi) ==
  IF lo >= hi THEN lo
  ELSE LET mid == (lo + hi + 1) \div 2
       IN  IF mid * mid <= n THEN ISqrt(n, mid, hi) ELSE ISqrt(n, lo, mid - 1)

Sqrt(a) ==
  IF ~IsNumber(a) \/ a < 0 THEN NaN
  ELSE IF a = Infinity THEN Infinity
  ELSE ISqrt(a * Unit, 0, a + Unit)

\* cos(k * PI / 16), k an integer
CosSixteenth(k) ==
  LET T == <<1000, 981, 924, 831, 707, 556, 383, 195, 0>>
      m == k % 32
  IN  IF m <= 8 THEN T[m + 1]
      ELSE IF m <= 16 THEN 0 - T[17 - m]
      ELSE IF m <= 24 THEN 0 - T[m - 15]
      ELSE T[33 - m]

\* Math.cos(a * PI / 2) and Math.sin(a * PI / 2), a to the nearest 1/8 below
CosHalfPi(a) == IF ~IsFinite(a) THEN NaN ELSE CosSixteenth((a * 8) \div Unit)

SinHalfPi(a) == IF ~IsFinite(a) THEN NaN ELSE CosSixteenth(((a * 8) \div Unit) - 8)

\* Math.pow(2, a), the fraction of a to the nearest 1/4 below
Exp2(a) ==
  IF ~IsNumber(a) THEN NaN
  ELSE IF a = Infinity THEN Infinity
  ELSE IF a = 0 - Infinity THEN 0
  ELSE LET n == a \div Unit
           T == <<1000, 1189, 1414, 1682>>
           f == T[((a % Unit) * 4) \div Unit + 1]
       IN  IF n > 20 THEN Infinity
           ELSE IF n < 0 - 20 THEN 0
           ELSE IF n >= 0 THEN f * (2 ^ n)
           ELSE (f + (2 ^ ((0 - n) - 1))) \div (2 ^ (0 - n))

(***************************************************************************)
(* The easing table                                                        *)
(***************************************************************************)
EasingNames ==
  { "linear", "quadIn", "quadOut", "quadInOut", "cubicIn", "cubicOut",
    "cubicInOut", "quartIn", "quartOut", "quartInOut", "sineIn", "sineOut",
    "sineInOut", "expoIn", "expoOut", "expoInOut", "circIn", "circOut",
    "circInOut", "backIn", "backOut", "backInOut" }

easings(name, value) ==
  LET one  == Num(1)
      two  == Num(2)
      half == Unit \div 2
      dbl  == Div(value, half)            \* value /= 0.5
      dm2  == Sub(dbl, two)               \* value -= 2
      vm1  == Sub(value, one)
      s    == 1702                        \* 1.70158
      s2   == Mul(s, 1525)                \* s *= 1.525
  IN  CASE name = "linear"     -> value
        [] name = "quadIn"     -> Pow(value, 2)
        [] name = "quadOut"    -> Neg(Sub(Pow(vm1, 2), one))
        [] name = "quadInOut"  ->
             IF Lt(dbl, one) THEN Mul(half, Pow(dbl, 2))
             ELSE Mul(0 - half, Sub(Mul(dm2, dm2), two))
        [] name = "cubicIn"    -> Pow(value, 3)
        [] name = "cubicOut"   -> Add(Pow(vm1, 3), one)
        [] name = "cubicInOut" ->
             IF Lt(dbl, one) THEN Mul(half, Pow(dbl, 3))
             ELSE Mul(half, Add(Pow(dm2, 3), two))
        [] name = "quartIn"    -> Pow(value, 4)
        [] name = "quartOut"   -> Neg(Sub(Pow(vm1, 4), one))
        [] name = "quartInOut" ->
             IF Lt(dbl, one) THEN Mul(half, Pow(dbl, 4))
             ELSE Mul(0 - half, Sub(Mul(dm2, Pow(dm2, 3)), two))
        [] name = "sineIn"     -> Add(Neg(CosHalfPi(value)), one)
        [] name = "sineOut"    -> SinHalfPi(value)
        [] name = "sineInOut"  ->
             Mul(0 - half, Sub(CosHalfPi(Mul(two, value)), one))
        [] name = "expoIn"     ->
             IF value = 0 THEN 0 ELSE Exp2(Mul(Num(10), vm1))
        [] name = "expoOut"    ->
             IF value = one THEN one
             ELSE Add(Neg(Exp2(Mul(Num(0 - 10), value))), one)
        [] name = "expoInOut"  ->
             IF value = 0 THEN 0
             ELSE IF value = one THEN one
             ELSE IF Lt(dbl, one)
               THEN Mul(half, Exp2(Mul(Num(10), Sub(dbl, one))))
             ELSE Mul(half, Add(Neg(Exp2(Mul(Num(0 - 10), Sub(dbl, one)))), two))
        [] name = "circIn"     -> Neg(Sub(Sqrt(Sub(one, Mul(value, value))), one))
        [] name = "circOut"    -> Sqrt(Sub(one, Pow(vm1, 2)))
        [] name = "circInOut"  ->
             IF Lt(dbl, one)
               THEN Mul(0 - half, Sub(Sqrt(Sub(one, Mul(dbl, dbl))), one))
             ELSE Mul(half, Add(Sqrt(Sub(one, Mul(dm2, dm2))), one))
        [] name = "backIn"     ->
             Mul(Mul(value, value), Sub(Mul(Add(s, one), value), s))
        [] name = "backOut"    ->
             Add(Mul(Mul(vm1, vm1), Add(Mul(Add(s, one), vm1), s)), one)
        [] name = "backInOut"  ->
             IF Lt(dbl, one)
               THEN Mul(half, Mul(Mul(dbl, dbl), Sub(Mul(Add(s2, one), dbl), s2)))
             ELSE Mul(half,
                      Add(Mul(Mul(dm2, dm2), Add(Mul(Add(s2, one), dm2), s2)), two))


(***************************************************************************)
(* Value objects.  A value object is the tuple of its components: a Scalar *)
(* is <<value>>, a Vector2 is <<x, y>>.  <<>> stands for undefined.        *)
(***************************************************************************)
Classes == {"ScalarSpan", "Vector2Span"}

Has(o, f) == f \in DOMAIN o

Get(o, f, default) == IF f \in DOMAIN o THEN o[f] ELSE default

Elem(a, i) == IF i \in DOMAIN a THEN a[i] ELSE Undefined

\* new Scalar(), new Vector2()
NewValue(cls) == IF cls = "ScalarSpan" THEN <<0>> ELSE <<0, 0>>

\* a literal is a number for a ScalarSpan and an array for a Vector2Span
_convert(cls, like) ==
  IF cls = "ScalarSpan" THEN <<like>> ELSE <<Elem(like, 1), Elem(like, 2)>>

\* value.toJSON?.() ?? value.toArray?.()
valueToJSON(cls, value) == IF cls = "ScalarSpan" THEN value[1] ELSE value

\* MathUtils.lerp(x, y, t) = (1 - t) * x + t * y
MathLerp(x, y, t) == Add(Mul(Sub(Num(1), t), x), Mul(t, y))

\* a lerp that runs from the end to the start
lerpValuesReversed(cls, v1, v2, alpha) ==
  [i \in DOMAIN v1 |-> Add(v2[i], Mul(Sub(v1[i], v2[i]), alpha))]

\* Scalar.lerpScalars and Vector2.lerpVectors
lerpValues(cls, v1, v2, alpha) ==
  IF cls = "ScalarSpan" THEN <<MathLerp(v1[1], v2[1], alpha)>>
  ELSE [i \in DOMAIN v1 |-> Add(v1[i], Mul(Sub(v2[i], v1[i]), alpha))]

\* target.copy(lower).lerp(upper, t): Scalar.lerp and Vector2.lerp
copyLerp(cls, lower, upper, t) ==
  IF cls = "ScalarSpan" THEN <<MathLerp(lower[1], upper[1], t)>>
  ELSE [i \in DOMAIN lower |-> Add(lower[i], Mul(Sub(upper[i], lower[i]), t))]

\* lerpScalar: the only place of the source that applies forceInteger
lerpScalar(min, max, scale, forceInteger) ==
  LET value == MathLerp(min[1], max[1], scale)
  IN  <<IF forceInteger THEN MathRound(value) ELSE value>>

\* array.sort((a, b) => a - b) of a set of numbers
RECURSIVE SortAsc(_)
SortAsc(set) ==
  IF set = {} THEN <<>>
  ELSE LET m == CHOOSE a \in set : \A b \in set : a <= b
       IN  <<m>> \o SortAsc(set \ {m})

(***************************************************************************)
(* Keyframe interpolator (curveInterpolation, curvesAxesInterpolation).    *)
(* A curve is [kind |-> "value", pts |-> key -> value] or                  *)
(* [kind |-> "axes", axes |-> axis -> component]; a component is           *)
(* [bare |-> pts] or [curve |-> pts] with an optional shape.               *)
(***************************************************************************)
\* Object.keys(curve).map(parseFloat).sort(): an axis name parses to NaN
curveSteps(curve) ==
  IF curve.kind = "value" THEN SortAsc(DOMAIN curve.pts)
  ELSE [i \in 1..Cardinality(DOMAIN curve.axes) |-> NaN]

\* steps.map((step) => curve[step])
curveValues(curve) ==
  LET steps == curveSteps(curve)
  IN  [i \in DOMAIN steps |->
         IF curve.kind = "value" THEN curve.pts[steps[i]] ELSE Undefined]

\* let i = 0; while (x > steps[i + 1]) i++;   (i counts from 0)
RECURSIVE curveSegment(_, _, _)
curveSegment(steps, x, i) ==
  IF Gt(x, Elem(steps, i + 2)) THEN curveSegment(steps, x, i + 1) ELSE i

\* curveInterpolation with t taken over x1 instead of x1 - x0
curveInterpolationOverX1(curve, curveShape, x) ==
  LET steps      == curveSteps(curve)
      values     == curveValues(curve)
      firstStep  == Elem(steps, 1)
      firstValue == Elem(values, 1)
      lastStep   == Elem(steps, Len(steps))
      lastValue  == Elem(values, Len(steps))
      i  == curveSegment(steps, x, 0)
      x0 == Elem(steps, i + 1)
      x1 == Elem(steps, i + 2)
      y0 == Elem(values, i + 1)
      y1 == Elem(values, i + 2)
      t  == Div(Sub(x, x0), x1)
      t2 == Mul(t, t)
      t3 == Mul(t2, t)
      a  == Add(Sub(Mul(Num(2), t3), Mul(Num(3), t2)), Num(1))
      b  == Add(Mul(Num(0 - 2), t3), Mul(Num(3), t2))
      c  == Add(Sub(t3, Mul(Num(2), t2)), t)
      d  == Sub(t3, t2)
      dy == Mul(Sub(y1, y0), Sub(x1, x0))
  IN  IF Le(x, firstStep) THEN firstValue
      ELSE IF Ge(x, lastStep) THEN lastValue
      ELSE CASE curveShape = "smooth" ->
                  Add(Add(Add(Mul(a, y0), Mul(b, y1)), Mul(c, dy)), Mul(d, dy))
             [] curveShape = "linear" -> Add(y0, Mul(Sub(y1, y0), t))
             [] OTHER -> y0

curveInterpolation(curve, curveShape, x) ==
  LET steps      == curveSteps(curve)
      values     == curveValues(curve)
      firstStep  == Elem(steps, 1)
      firstValue == Elem(values, 1)
      lastStep   == Elem(steps, Len(steps))
      lastValue  == Elem(values, Len(steps))
      i  == curveSegment(steps, x, 0)
      x0 == Elem(steps, i + 1)
      x1 == Elem(steps, i + 2)
      y0 == Elem(values, i + 1)
      y1 == Elem(values, i + 2)
      t  == Div(Sub(x, x0), Sub(x1, x0))
      t2 == Mul(t, t)
      t3 == Mul(t2, t)
      a  == Add(Sub(Mul(Num(2), t3), Mul(Num(3), t2)), Num(1))
      b  == Add(Mul(Num(0 - 2), t3), Mul(Num(3), t2))
      c  == Add(Sub(t3, Mul(Num(2), t2)), t)
      d  == Sub(t3, t2)
      dy == Mul(Sub(y1, y0), Sub(x1, x0))
  IN  IF Le(x, firstStep) THEN firstValue
      ELSE IF Ge(x, lastStep) THEN lastValue
      ELSE CASE curveShape = "smooth" ->
                  Add(Add(Add(Mul(a, y0), Mul(b, y1)), Mul(c, dy)), Mul(d, dy))
             [] curveShape = "linear" -> Add(y0, Mul(Sub(y1, y0), t))
             [] OTHER -> y0

\* the per-axis step function: value[axis] = lerp(start[axis], end[axis], easing(scale))
curvesAxesInterpolation(curves, curveShape, value, start, end, scale) ==
  LET AXES == <<"x", "y", "z", "w">>
      mapped(i) ==
        /\ Has(curves, AXES[i])
        /\ i \in DOMAIN value
      easing(i) ==
        LET curveValue == curves[AXES[i]]
            curve == IF Has(curveValue, "curve") THEN curveValue.curve
                     ELSE curveValue.bare
            given == IF Has(curveValue, "curve")
                     THEN Get(curveValue, "shape", "") ELSE curveShape
            shape == IF given = "" THEN curveShape ELSE given
        IN  curveInterpolation([kind |-> "value", pts |-> curve], shape, scale)
  IN  [i \in DOMAIN value |->
         IF mapped(i) THEN MathLerp(start[i], end[i], easing(i)) ELSE value[i]]

(***************************************************************************)
(* Gradient resolver                                                       *)
(***************************************************************************)
gradientFirstLast(keys, steps) ==
  LET firstKey == Elem(keys, 1)
      lastKey  == Elem(keys, Len(keys))
  IN  [firstKey  |-> firstKey,
       firstStep |-> Get(steps, firstKey, <<>>),
       lastKey   |-> lastKey,
       lastStep  |-> Get(steps, lastKey, <<>>)]

\* a sub-range whose t is taken over the upper key instead of the key distance
gradientSubRangeUnscaled(keys, steps, step) ==
  LET hits == {i \in 1..(Len(keys) - 1) : Ge(step, keys[i]) /\ Le(step, keys[i + 1])}
      last == CHOOSE i \in hits : \A j \in hits : j <= i
      lowerKey == IF hits = {} THEN Undefined ELSE keys[last]
      upperKey == IF hits = {} THEN Undefined ELSE keys[last + 1]
  IN  [lowerVec |-> Get(steps, lowerKey, <<>>),
       upperVec |-> Get(steps, upperKey, <<>>),
       t        |-> Div(Sub(step, lowerKey), upperKey)]

\* the loop keeps the last pair that brackets step: no break
gradientSubRangeLerpParams(keys, steps, step) ==
  LET hits == {i \in 1..(Len(keys) - 1) : Ge(step, keys[i]) /\ Le(step, keys[i + 1])}
      last == CHOOSE i \in hits : \A j \in hits : j <= i
      lowerKey == IF hits = {} THEN Undefined ELSE keys[last]
      upperKey == IF hits = {} THEN Undefined ELSE keys[last + 1]
  IN  [lowerVec |-> Get(steps, lowerKey, <<>>),
       upperVec |-> Get(steps, upperKey, <<>>),
       t        |-> Div(Sub(step, lowerKey), Sub(upperKey, lowerKey))]

\* the step function gradientVectorLerp returns; copying undefined throws
gradientVectorLerp(cls, steps, keys, step) ==
  LET fl  == gradientFirstLast(keys, steps)
      sub == gradientSubRangeLerpParams(keys, steps, step)
  IN  IF Le(step, fl.firstKey)
        THEN [threw |-> fl.firstStep = <<>>, value |-> fl.firstStep]
      ELSE IF Ge(step, fl.lastKey)
        THEN [threw |-> fl.lastStep = <<>>, value |-> fl.lastStep]
      ELSE IF sub.lowerVec = <<>> \/ sub.upperVec = <<>>
        THEN [threw |-> TRUE, value |-> <<>>]
      ELSE [threw |-> FALSE,
            value |-> copyLerp(cls, sub.lowerVec, sub.upperVec, sub.t)]

(***************************************************************************)
(* Array picker                                                            *)
(***************************************************************************)
\* MathUtils.euclideanModulo(n, m) = ((n % m) + m) % m, NaN when m is 0
euclideanModulo(n, m) ==
  IF m = 0 THEN NaN ELSE IF m > 0 THEN n % m ELSE 0 - ((0 - n) % (0 - m))

\* a picker that wraps around to the first element instead of turning back
pingpongWrapped(x, length) == euclideanModulo(x, length + 1)

\* MathUtils.pingpong(x, length) = length - |euclideanModulo(x, 2 length) - length|
pingpong(x, length) ==
  LET e == euclideanModulo(x, length * 2)
  IN  IF e = NaN THEN NaN
      ELSE length - (IF e - length < 0 THEN length - e ELSE e - length)

\* the index the picker reads; rand is Math.random() in [0, 1)
arrayPickIndex(length, pick, step, rand) ==
  CASE pick = "random" -> (rand * length) \div Unit
    [] pick = "repeat" -> IF length = 0 THEN NaN ELSE step % length
    [] OTHER -> pingpong(step, length - 1)

\* array[index] with index counted from 0; undefined outside the array
arrayPick(array, pick, step, rand) ==
  LET index == arrayPickIndex(Len(array), pick, step, rand)
  IN  IF index # NaN /\ (index + 1) \in DOMAIN array THEN array[index + 1] ELSE <<>>

(***************************************************************************)
(* SpanNoise.  The simplex generators are an outside library: a generator  *)
(* is named by the state of the random source it was created from, the     *)
(* seed when alea(seed) is used and a draw of Math.random otherwise, and a *)
(* sample is a fixed function of the generator and the coordinates.        *)
(***************************************************************************)
Absent == [undefined |-> TRUE]

Opt(present, fields) == IF present THEN fields ELSE [f \in {} |-> 0]

\* seed ? alea(seed) : undefined
createNoise(seed, entropy) ==
  IF seed # Undefined /\ seed # 0 THEN [alea |-> seed] ELSE [random |-> entropy]

simplex(generator, x, y, z) ==
  IF ~IsFinite(x) \/ ~IsFinite(y) \/ ~IsFinite(z) THEN NaN
  ELSE LET g == IF Has(generator, "alea") THEN 2 * generator.alea
                ELSE 2 * generator.random + 1
       IN  ((g * 37 + x * 11 + y * 7 + z * 3) % (2 * Unit + 1)) - Unit

\* SpanNoise.set on `this` (Absent for a new object)
SpanNoiseSet(this, params, entropy) ==
  LET seed == Get(params, "seed", Undefined)
  IN  [_seed      |-> seed,
       frequency  |-> Get(params, "frequency", Get(this, "frequency", Num(1))),
       amplitude  |-> Get(params, "amplitude", Get(this, "amplitude", Num(1))),
       cycle      |-> Get(params, "cycles", Get(this, "cycle", Num(1))),
       speed      |-> Get(params, "speed", Get(this, "speed", Num(1))),
       _simplex2D |-> createNoise(seed, entropy),
       _simplex3D |-> createNoise(seed, entropy)]

\* SpanNoise.create of a plain configuration: new SpanNoise(noise)
SpanNoiseCreate(noise, entropy) == SpanNoiseSet(Absent, noise, entropy)

SpanNoiseToJSON(this) ==
  Opt(this._seed # Undefined, [seed |-> this._seed])
  @@ Opt(this.frequency # Num(1), [frequency |-> this.frequency])
  @@ Opt(this.amplitude # Num(1), [amplitude |-> this.amplitude])
  @@ Opt(this.cycle # Num(1), [cycles |-> this.cycle])
  @@ Opt(this.speed # Unit \div 10, [speed |-> this.speed])

\* copy(source) { return this.set(source.toJSON()) }
SpanNoiseCopy(this, source, entropy) ==
  SpanNoiseSet(this, SpanNoiseToJSON(source), entropy)

\* clone() { return new this.constructor(this.toJSON()) }
SpanNoiseClone(this, entropy) == SpanNoiseSet(Absent, SpanNoiseToJSON(this), entropy)

(***************************************************************************)
(* The temporal remapper: the state of one _timerWrapper closure and one   *)
(* call of it.  The call returns the new closure state and the progress it *)
(* hands to the wrapped step function.                                     *)
(***************************************************************************)
_timerWrapper(s) ==
  [on         |-> TRUE,
   _speed     |-> s._speed,
   _delay     |-> s._delay,
   _repeat    |-> s._repeat,
   _alternate |-> s._alternate,
   timer      |-> 0,
   duration   |-> Abs(s._speed),
   repeated   |-> 0,
   expired    |-> FALSE,
   firstCycle |-> TRUE]

\* the end of a cycle mirroring on every completed cycle, odd or even
timerCycleEndMirrorAll(w, step, repeated) ==
  [w |-> [w EXCEPT !.timer = 0,
                   !.firstCycle = FALSE,
                   !.repeated = repeated,
                   !.expired = Ge(repeated, w._repeat)],
   progress |-> IF ~Ge(repeated, w._repeat) /\ w._alternate
                  THEN Sub(Num(1), step)
                ELSE step]

\* the end of a cycle expiring one cycle late: repeated > _repeat
timerCycleEndLate(w, step, repeated) ==
  [w |-> [w EXCEPT !.timer = 0,
                   !.firstCycle = FALSE,
                   !.repeated = repeated,
                   !.expired = Gt(repeated, w._repeat)],
   progress |-> IF ~Gt(repeated, w._repeat) /\ w._alternate /\ repeated % 2 = 1
                  THEN Sub(Num(1), step)
                ELSE step]

\* `if (timer >= duration) {...}`, with repeated already incremented
timerCycleEnd(w, step, repeated) ==
  [w |-> [w EXCEPT !.timer = 0,
                   !.firstCycle = FALSE,
                   !.repeated = repeated,
                   !.expired = Ge(repeated, w._repeat)],
   progress |-> IF ~Ge(repeated, w._repeat) /\ w._alternate /\ repeated % 2 = 1
                  THEN Sub(Num(1), step)
                ELSE step]

\* a cycle that carries the time beyond its length into the next cycle
timerCycleCarry(w, step, elapsed) ==
  IF Ge(elapsed, w.duration)
    THEN [w |-> [w EXCEPT !.timer = Sub(elapsed, w.duration),
                          !.firstCycle = FALSE,
                          !.repeated = w.repeated + 1,
                          !.expired = Ge(w.repeated + 1, w._repeat)],
          progress |-> step]
  ELSE [w |-> [w EXCEPT !.timer = elapsed, !.firstCycle = FALSE], progress |-> step]

\* the closure from `if (timer >= duration)` on; timer is past the delay
timerCycle(w, step, elapsed) ==
  IF Ge(elapsed, w.duration) THEN timerCycleEnd(w, step, w.repeated + 1)
  ELSE [w |-> [w EXCEPT !.timer = elapsed, !.firstCycle = FALSE], progress |-> step]

\* a delay window that forgets the time accumulated in it
timerDelayForgetful(w, step, elapsed) ==
  IF w.firstCycle
    THEN IF Lt(elapsed, w._delay)
           THEN [w |-> w, progress |-> 0]
         ELSE timerCycle(w, step, Sub(elapsed, w._delay))
  ELSE timerCycle(w, step, elapsed)

\* the closure from `if (firstCycle)` on; elapsed is timer + |step|
timerDelay(w, step, elapsed) ==
  IF w.firstCycle
    THEN IF Lt(elapsed, w._delay)
           THEN [w |-> [w EXCEPT !.timer = elapsed], progress |-> 0]
         ELSE timerCycle(w, step, Sub(elapsed, w._delay))
  ELSE timerCycle(w, step, elapsed)

\* the closure from `timer += Math.abs(step)` on; step is already scaled
timerAdvance(w, step) == timerDelay(w, step, Add(w.timer, Abs(step)))

\* a closure without its `if (expired)` line
timerCallUnguarded(w, step) == timerAdvance(w, Mul(step, w._speed))

timerCall(w, step) ==
  IF w.expired THEN [w |-> w, progress |-> Num(1)]
  ELSE timerAdvance(w, Mul(step, w._speed))

(***************************************************************************)
(* Span.  A Span is the record of its fields; `step` is the installed step *)
(* function: the base function with what it captured (fn), the counter of  *)
(* the array picker, and the state of the timer and noise wrappers around  *)
(* it.  repeat and the picker's counter are plain counts.                  *)
(***************************************************************************)
NoStep == [fn |-> [name |-> "undefined"], pickStep |-> 0,
           timer |-> [on |-> FALSE], noise |-> [on |-> FALSE]]

\* the object after super() and this._value = new T(), before set(params)
NewSpan(cls) ==
  [class        |-> cls,
   _value       |-> NewValue(cls),
   _type        |-> "undefined",
   _start       |-> <<>>,
   _end         |-> <<>>,
   _easing      |-> "undefined",
   _curve       |-> Absent,
   _curveShape  |-> "undefined",
   _steps       |-> <<>>,
   _array       |-> <<>>,
   _pick        |-> "undefined",
   _noise       |-> Absent,
   _hasTimer    |-> FALSE,
   _speed       |-> Undefined,
   _delay       |-> Undefined,
   _repeat      |-> Undefined,
   _alternate   |-> FALSE,
   forceInteger |-> FALSE,
   step         |-> NoStep]

_stepper(s, stepFunction, noise, entropy) ==
  [s EXCEPT
     !._noise = IF noise # Absent THEN SpanNoiseCreate(noise, entropy) ELSE @,
     !.step = [fn       |-> stepFunction,
               pickStep |-> 0,
               timer    |-> IF s._hasTimer THEN _timerWrapper(s) ELSE [on |-> FALSE],
               noise    |-> IF noise # Absent
                            THEN [on |-> TRUE, t |-> 0, timer |-> 0]
                            ELSE [on |-> FALSE]]]

_bound(s, start, end, forceInteger) ==
  [s EXCEPT !._start = _convert(s.class, start),
            !._end = _convert(s.class, end),
            !.forceInteger = forceInteger]

\* Span._lerp and ScalarSpan._lerp: the closure over start, end and the easing
_lerp(s, easing) ==
  [name |-> "_lerp", start |-> s._start, end |-> s._end, easing |-> easing]

val(s, value, noise, entropy) ==
  LET v  == _convert(s.class, value)
      s1 == [s EXCEPT !._type = "value", !._value = v]
  IN  _stepper(s1, [name |-> "val", val |-> v], noise, entropy)

lerp(s, start, end, easing, forceInteger, noise, entropy) ==
  LET s1 == _bound([s EXCEPT !._type = "lerp", !._easing = easing],
                   start, end, forceInteger)
  IN  _stepper(s1, _lerp(s1, [fn |-> "easings", name |-> easing]), noise, entropy)

randomLerp(s, start, end, forceInteger, noise, entropy) ==
  LET s1 == _bound([s EXCEPT !._type = "randomLerp"], start, end, forceInteger)
  IN  _stepper(s1, _lerp(s1, [fn |-> "Math.random"]), noise, entropy)

\* Span.random; ScalarSpan overrides it by randomLerp
random(s, start, end, forceInteger, noise, entropy) ==
  IF s.class = "ScalarSpan"
    THEN randomLerp(s, start, end, forceInteger, noise, entropy)
  ELSE LET s1 == _bound([s EXCEPT !._type = "random"], start, end, forceInteger)
       IN  _stepper(s1,
                    [name |-> "randomVector", start |-> s1._start, end |-> s1._end],
                    noise, entropy)

curve(s, curve_, curveShape, start, end, forceInteger, noise, entropy) ==
  LET s1 == _bound([s EXCEPT !._type = "curve"], start, end, forceInteger)
      s2 == [s1 EXCEPT !._curve = curve_,
                       !._curveShape = IF curveShape = "" THEN "smooth" ELSE curveShape]
  IN  _stepper(s2,
               _lerp(s2, [fn |-> "curveInterpolation",
                          curve |-> s2._curve, curveShape |-> s2._curveShape]),
               noise, entropy)

array(s, array_, pick, noise, entropy) ==
  LET s1 == [s EXCEPT !._type = "array",
                      !._array = [i \in DOMAIN array_ |-> _convert(s.class, array_[i])],
                      !._pick = IF pick = "" THEN "random" ELSE pick]
  IN  _stepper(s1, [name |-> "arrayPick", array |-> s1._array, pick |-> s1._pick],
               noise, entropy)

\* max = Math.max(max, key) and min = Math.min(min, key) over the keys
RECURSIVE MaxOver(_, _)
MaxOver(acc, keys) ==
  IF keys = {} THEN acc
  ELSE LET k == CHOOSE k \in keys : TRUE
       IN  MaxOver(MathMax(acc, k), keys \ {k})

RECURSIVE MinOver(_, _)
MinOver(acc, keys) ==
  IF keys = {} THEN acc
  ELSE LET k == CHOOSE k \in keys : TRUE
       IN  MinOver(MathMin(acc, k), keys \ {k})

\* steps maps each key the caller gave (a number) to a literal
gradient(s, steps, noise, entropy) ==
  LET given == DOMAIN steps
      max == MaxOver(0, given)
      min == MinOver(Infinity, given)
      norm(key) == Div(Sub(key, min), Sub(max, min))
      normed == {norm(key) : key \in given}
      writer(k) == CHOOSE key \in given :
                     /\ norm(key) = k
                     /\ \A other \in given : norm(other) = k => other <= key
      s1 == [s EXCEPT !._type = "gradient",
                      !._steps = [k \in normed |-> _convert(s.class, steps[writer(k)])]]
      keys == SortAsc(normed)
  IN  _stepper(s1, [name |-> "gradientVectorLerp", steps |-> s1._steps, keys |-> keys],
               noise, entropy)

\* Span.timer without its last line: the fields it assigns
timerFields(s, params) ==
  LET speed     == Get(params, "speed", Num(1))
      delay     == Get(params, "delay", 0)
      repeat    == Get(params, "repeat", Infinity)
      alternate == Get(params, "alternate", FALSE)
  IN  [s EXCEPT !._hasTimer = speed # Num(1) \/ delay # 0 \/ repeat # Infinity \/ alternate,
                !._speed = speed,
                !._delay = delay,
                !._repeat = repeat,
                !._alternate = alternate]

\* a bare literal is [literal |-> x]; a configuration is a record with a type
set(s, params, entropy) ==
  IF ~Has(params, "type") THEN val(s, params.literal, Absent, entropy)
  ELSE
    LET s1    == [timerFields(s, params) EXCEPT !._type = params.type]
        noise == Get(params, "noise", Absent)
        force == Get(params, "forceInteger", FALSE)
    IN  CASE params.type = "value" -> val(s1, params.value, noise, entropy)
          [] params.type = "array" ->
               array(s1, params.array, Get(params, "pick", ""), noise, entropy)
          [] params.type = "gradient" -> gradient(s1, params.steps, noise, entropy)
          [] params.type \in {"randomLerp", "random"} ->
               randomLerp(s1, params.start, params.end, force, noise, entropy)
          [] params.type = "lerp" ->
               lerp(s1, params.start, params.end, Get(params, "easing", "linear"),
                    force, noise, entropy)
          [] params.type = "curve" ->
               curve(s1, params.curve, Get(params, "curveShape", "smooth"),
                     params.start, params.end, force, noise, entropy)
          [] OTHER -> s1

toJSON(s) ==
  LET cls == s.class
      baseJson ==
        [type |-> s._type, forceInteger |-> s.forceInteger]
        @@ Opt(s._noise # Absent, [noise |-> SpanNoiseToJSON(s._noise)])
        @@ Opt(s._hasTimer,
               [speed |-> s._speed, delay |-> s._delay,
                repeat |-> s._repeat, alternate |-> s._alternate])
      BaseJSONWithBounds ==
        baseJson
        @@ Opt(s._start # <<>>, [start |-> valueToJSON(cls, s._start)])
        @@ Opt(s._end # <<>>, [end |-> valueToJSON(cls, s._end)])
  IN  CASE s._type = "value" -> baseJson @@ [value |-> valueToJSON(cls, s._value)]
        [] s._type \in {"randomLerp", "random"} -> BaseJSONWithBounds
        [] s._type = "lerp" -> BaseJSONWithBounds @@ [easing |-> s._easing]
        [] s._type = "curve" ->
             BaseJSONWithBounds @@ [curve |-> s._curve, curveShape |-> s._curveShape]
        [] s._type = "gradient" ->
             baseJson @@ [steps |-> [k \in DOMAIN s._steps |-> valueToJSON(cls, s._steps[k])]]
        [] s._type = "array" ->
             baseJson @@ [array |-> [i \in DOMAIN s._array |-> valueToJSON(cls, s._array[i])],
                          pick |-> s._pick]

copy(s, source, entropy) == set(s, toJSON(source), entropy)

\* new Span(params), which fromJSON and clone call
construct(cls, params, entropy) == set(NewSpan(cls), params, entropy)

clone(s, entropy) == construct(s.class, toJSON(s), entropy)

timer(s, params, reset, entropy) ==
  LET s1 == timerFields(s, params)
  IN  IF reset /\ s1._hasTimer THEN copy(s1, s1, entropy) ELSE s1

(***************************************************************************)
(* EulerSpan.  Only the choice of the interpolation is modelled: slerp is  *)
(* the flag, _lerp the factory found on the object ("Span._lerp" is the    *)
(* inherited one of the prototype, which calls lerpVectors on the value),  *)
(* and step names the factory that built the installed step function.      *)
(***************************************************************************)
\* EulerSpan.lerp: this._lerp = this.slerp ? this._slerp : this._eulerLerp,
\* then super.lerp, which installs this._lerp(easings[easing])
eulerLerp(e) ==
  LET chosen == IF e.slerp THEN "_slerp" ELSE "_eulerLerp"
  IN  [e EXCEPT !._lerp = chosen, !._type = "lerp", !.step = chosen]

\* Span.randomLerp and Span.curve, not overridden: they install
\* this._lerp(Math.random) and this._lerp(curveInterpolation(...))
eulerStartEnd(e, type) == [e EXCEPT !._type = type, !.step = e._lerp]

\* Span.set on an EulerSpan, for the modes with a start and an end
eulerSet(e, params) ==
  LET e1 == [e EXCEPT !._type = params.type,
                      !.slerp = IF Has(params, "slerp") /\ params.slerp = FALSE
                                  THEN FALSE ELSE @]
  IN  IF params.type = "lerp" THEN eulerLerp(e1) ELSE eulerStartEnd(e1, params.type)

(***************************************************************************)
(* One call of the installed step function.  rand is the pair of           *)
(* Math.random() draws the call may consume.  A result names what was      *)
(* returned (ret, <<>> for undefined), which object it is, whether the     *)
(* call threw, and the output value and picker counter it leaves.          *)
(***************************************************************************)
\* MathUtils.randFloat(low, high) = low + Math.random() * (high - low)
randFloat(low, high, rand) == Add(low, Mul(rand, Sub(high, low)))

\* the easing a _lerp closure holds, applied to scale
easingCall(easing, scale, rand) ==
  CASE easing.fn = "easings" ->
         IF easing.name \in EasingNames
           THEN [threw |-> FALSE, value |-> easings(easing.name, scale)]
         ELSE [threw |-> TRUE, value |-> NaN]
    [] easing.fn = "Math.random" -> [threw |-> FALSE, value |-> rand[1]]
    [] easing.fn = "curveInterpolation" ->
         [threw |-> FALSE,
          value |-> curveInterpolation(easing.curve, easing.curveShape, scale)]

\* a call that returns this._value unchanged, and one that throws
Same(value, pickStep) ==
  [threw |-> FALSE, ret |-> value, object |-> "_value",
   value |-> value, pickStep |-> pickStep]

Thrown(value, pickStep) ==
  [threw |-> TRUE, ret |-> <<>>, object |-> "none",
   value |-> value, pickStep |-> pickStep]

\* a call that writes v into this._value and returns it
Written(v, pickStep) == Same(v, pickStep)

lerpCall(cls, fn, value, pickStep, e) ==
  IF e.threw THEN Thrown(value, pickStep)
  ELSE Written(lerpValues(cls, fn.start, fn.end, e.value), pickStep)

pickCall(fn, value, pickStep, picked) ==
  [Same(value, pickStep) EXCEPT
     !.ret = picked,
     !.object = IF picked = <<>> THEN "undefined" ELSE "array element",
     !.pickStep = IF fn.pick = "random" THEN pickStep ELSE pickStep + 1]

gradientCall(value, pickStep, g) ==
  IF g.threw THEN Thrown(value, pickStep) ELSE Written(g.value, pickStep)

baseCall(cls, fn, value, pickStep, scale, rand) ==
  CASE fn.name = "val" -> [Same(value, pickStep) EXCEPT !.ret = fn.val]
    [] fn.name = "_lerp" ->
         lerpCall(cls, fn, value, pickStep, easingCall(fn.easing, scale, rand))
    [] fn.name = "randomVector" ->
         Written([i \in DOMAIN value |-> randFloat(fn.start[i], fn.end[i], rand[i])],
                 pickStep)
    [] fn.name = "arrayPick" ->
         pickCall(fn, value, pickStep, arrayPick(fn.array, fn.pick, pickStep, rand[1]))
    [] fn.name = "gradientVectorLerp" ->
         gradientCall(value, pickStep, gradientVectorLerp(cls, fn.steps, fn.keys, scale))
    [] OTHER -> Thrown(value, pickStep)

\* the base function called with the progress the timer wrapper hands it
timedBase(s, tc, rand) ==
  baseCall(s.class, s.step.fn, s._value, s.step.pickStep, tc.progress, rand)
  @@ [w |-> tc.w, progress |-> tc.progress]

\* the timer wrapper, when installed, around the base function
timedCall(s, step, rand) ==
  timedBase(s,
            IF s.step.timer.on THEN timerCall(s.step.timer, step)
            ELSE [w |-> s.step.timer, progress |-> step],
            rand)

\* the advance of a noise wrapper's clock: rate is 0.001 (scalar) or 0.01 (vector)
noiseTick(n, noise, elapsed, rate) ==
  IF Ge(elapsed, noise.cycle)
    THEN [n EXCEPT !.timer = 0, !.t = Add(n.t, Mul(rate, noise.speed))]
  ELSE [n EXCEPT !.timer = elapsed]

noiseClock(n, noise, step, rate) == noiseTick(n, noise, Add(n.timer, Abs(step)), rate)

noiseFailed(r) == [r EXCEPT !.threw = TRUE, !.ret = <<>>, !.object = "none"]

scalarNoise(noise, value, n, r) ==
  [r EXCEPT !.ret = <<Add(value, Mul(n, noise.amplitude))>>, !.object = "number"]

_scalarWrapper(noise, t, r) ==
  IF r.threw \/ r.ret = <<>> THEN noiseFailed(r)
  ELSE scalarNoise(noise, r.ret[1],
                   simplex(noise._simplex2D, Mul(r.ret[1], noise.frequency), t, 0), r)

vectorNoise(x, y, nx, ny, amplitude, r) ==
  [r EXCEPT !.ret = <<Add(x, Mul(Mul(nx, x), amplitude)),
                      Add(y, Mul(Mul(ny, y), amplitude))>>,
            !.object = "noiseValue"]

vectorSample(noise, x, y, frequency, t, r) ==
  vectorNoise(x, y,
              simplex(noise._simplex3D, Mul(x, frequency), Mul(y, frequency), t),
              simplex(noise._simplex3D, Mul(y, frequency), Mul(x, frequency), t),
              Mul(noise.amplitude, Unit \div 10), r)

_vectorWrapper(noise, t, r) ==
  IF r.threw \/ r.ret = <<>> THEN noiseFailed(r)
  ELSE vectorSample(noise, r.ret[1], r.ret[2], Mul(noise.frequency, Unit \div 10), t, r)

\* the perturbation of _vectorWrapper on the three components of a colour:
\* x += simplex3D(x f, y f, t) x a, y += simplex3D(y f, z f, t) y a,
\* z += simplex3D(z f, x f, t) z a, with f = frequency / 10, a = amplitude / 10
colorNoise(noise, c, t) ==
  LET axis(u, v) ==
        Add(u, Mul(Mul(simplex(noise._simplex3D,
                               Mul(u, Mul(noise.frequency, Unit \div 10)),
                               Mul(v, Mul(noise.frequency, Unit \div 10)), t), u),
                   Mul(noise.amplitude, Unit \div 10)))
  IN  <<axis(c[1], c[2]), axis(c[2], c[3]), axis(c[3], c[1])>>

\* one call of the closure _vectorWrapper returns for a Color.  n is the
\* closure state after its clock advanced; n.color is the closure's own
\* `color`, which noiseValue.setFromColor(color) reads and
\* color.setFromVector3(noiseValue) writes; value, the colour the wrapped
\* step function returned, is computed by the source and then not read
_colorWrapper(noise, n, value) == [n EXCEPT !.color = colorNoise(noise, n.color, n.t)]

\* what a call leaves: n the noise clock, r the timed base call, out what is returned
stepResult(s, step, n, r, out) ==
  [span |-> [s EXCEPT !._value = r.value,
                      !.step = [@ EXCEPT !.pickStep = r.pickStep,
                                         !.timer = r.w,
                                         !.noise = n]],
   call |-> [step |-> step, progress |-> r.progress, threw |-> out.threw,
             ret |-> out.ret, object |-> out.object,
             before |-> s.step.timer, after |-> r.w]]

noiseCall(s, step, n, r) ==
  stepResult(s, step, n, r,
             IF ~s.step.noise.on THEN r
             ELSE IF s.class = "ScalarSpan" THEN _scalarWrapper(s._noise, n.t, r)
             ELSE _vectorWrapper(s._noise, n.t, r))

\* span.step(step): the result of the call, with the Span it leaves
stepCall(s, step, rand) ==
  noiseCall(s, step,
            IF s.step.noise.on
              THEN noiseClock(s.step.noise, s._noise, step,
                              IF s.class = "ScalarSpan" THEN Unit \div 1000
                              ELSE Unit \div 100)
            ELSE s.step.noise,
            timedCall(s, step, rand))

(***************************************************************************)
(* State.  span is the Span under study and twin the latest clone of it.   *)
(* calls is the history of the calls made to the step function now         *)
(* installed, installs counts the step functions installed so far and op   *)
(* names the last operation.  spanNoise and otherNoise are two SpanNoise   *)
(* objects used on their own (Absent where only a Span is studied).        *)
(***************************************************************************)
VARIABLES span, twin, calls, installs, op, spanNoise, otherNoise

vars == <<span, twin, calls, installs, op, spanNoise, otherNoise>>

MaxInstalls == 2

MaxCalls == 2

MaxLerpCalls == 2

MaxGradientCalls == 2

MaxTimerCalls == 4

None == [f \in {} |-> 0]

\* Math.random() draws, and the draws that seed an unseeded noise generator
Draws == {0, Unit \div 2}

Entropy == {1}

\* the literals the configurations are built from, per class
Lo(cls) == IF cls = "ScalarSpan" THEN 0 ELSE <<0, 0>>

Hi(cls) == IF cls = "ScalarSpan" THEN Num(10) ELSE <<Num(10), Num(20)>>

Mid(cls) == IF cls = "ScalarSpan" THEN Num(4) ELSE <<Num(4), Num(2)>>

CurvePts == (0 :> 0) @@ (Unit \div 2 :> Num(1)) @@ (Unit :> 0)

RampPts == (0 :> 0) @@ (Unit :> Num(1))

Curves(cls) ==
  {[kind |-> "value", pts |-> CurvePts]}
  \cup (IF cls = "ScalarSpan" THEN {}
        ELSE {[kind |-> "axes",
               axes |-> [x |-> [bare |-> RampPts],
                         y |-> [curve |-> CurvePts, shape |-> "linear"]]]})

Gradients(cls) ==
  { (Num(1) :> Hi(cls)) @@ (Num(2) :> Lo(cls)) @@ (Num(3) :> Mid(cls)),
    (Num(0 - 2) :> Lo(cls)) @@ (Num(0 - 1) :> Hi(cls)) }

NoiseArgs == {[seed |-> 7, amplitude |-> Num(2)]}

TimerArgs == {[speed |-> Num(2)], [delay |-> Num(1), repeat |-> 2, alternate |-> TRUE]}

\* the shared optional fields a configuration may carry
Shared ==
  {None} \cup {[noise |-> n] : n \in NoiseArgs} \cup TimerArgs

ModeConfigs(cls) ==
  {[type |-> "value", value |-> Hi(cls)]}
  \cup {[type |-> "lerp", start |-> Lo(cls), end |-> Hi(cls)] @@ e :
          e \in {None, [easing |-> "quadIn"], [forceInteger |-> TRUE]}}
  \cup {[type |-> t, start |-> Lo(cls), end |-> Hi(cls)] : t \in {"random", "randomLerp"}}
  \cup {[type |-> "curve", start |-> Lo(cls), end |-> Hi(cls), curve |-> c,
          curveShape |-> "linear"] : c \in Curves(cls)}
  \cup {[type |-> "array", array |-> <<Lo(cls), Mid(cls), Hi(cls)>>] @@ pk :
          pk \in {None, [pick |-> "alternate"]}}
  \cup {[type |-> "gradient", steps |-> g] : g \in Gradients(cls)}

Configs(cls) ==
  {[literal |-> Mid(cls)]} \cup {c @@ sh : c \in ModeConfigs(cls), sh \in Shared}

Progress == {Unit \div 4, Unit}

(***************************************************************************)
(* Operations                                                              *)
(***************************************************************************)
\* a configuration call installed a new step function
Installed(s, what) ==
  /\ installs < MaxInstalls
  /\ span' = s
  /\ twin' = NewSpan(s.class)
  /\ calls' = <<>>
  /\ installs' = installs + 1
  /\ op' = what
  /\ UNCHANGED <<spanNoise, otherNoise>>

Set(params, entropy) ==
  Installed(set(span, params, entropy), [name |-> "set", params |-> params])

Val(value, noise, entropy) ==
  Installed(val(span, value, noise, entropy), [name |-> "val"])

Lerp(start, end, easing, forceInteger, noise, entropy) ==
  Installed(lerp(span, start, end, easing, forceInteger, noise, entropy),
            [name |-> "lerp"])

Random(start, end, forceInteger, noise, entropy) ==
  Installed(random(span, start, end, forceInteger, noise, entropy),
            [name |-> "random"])

RandomLerp(start, end, forceInteger, noise, entropy) ==
  Installed(randomLerp(span, start, end, forceInteger, noise, entropy),
            [name |-> "randomLerp"])

Curve(curve_, curveShape, start, end, forceInteger, noise, entropy) ==
  Installed(curve(span, curve_, curveShape, start, end, forceInteger, noise, entropy),
            [name |-> "curve"])

Array(array_, pick, noise, entropy) ==
  Installed(array(span, array_, pick, noise, entropy), [name |-> "array"])

Gradient(steps, noise, entropy) ==
  Installed(gradient(span, steps, noise, entropy), [name |-> "gradient"])

\* timer(params): the step function is rebuilt only when a timer is needed
Timer(params, entropy) ==
  \E s \in {timer(span, params, TRUE, entropy)} :
    IF s._hasTimer
      THEN Installed(s, [name |-> "timer", params |-> params])
    ELSE /\ span' = s
         /\ op' = [name |-> "timer", params |-> params]
         /\ UNCHANGED <<twin, calls, installs, spanNoise, otherNoise>>

Clone(entropy) ==
  /\ calls = <<>>
  /\ twin' = clone(span, entropy)
  /\ op' = [name |-> "clone"]
  /\ UNCHANGED <<span, calls, installs, spanNoise, otherNoise>>

Step(step, rand, max) ==
  /\ Len(calls) < max
  /\ \E r \in {stepCall(span, step, rand)} :
       /\ span' = r.span
       /\ calls' = Append(calls, r.call)
  /\ op' = [name |-> "step"]
  /\ UNCHANGED <<twin, installs, spanNoise, otherNoise>>

(***************************************************************************)
(* Spec: a Span of either class, configured and reconfigured through set,  *)
(* the mode setters and timer, stepped and cloned.                         *)
(***************************************************************************)
Constructed(cls, params, entropy) ==
  /\ span = construct(cls, params, entropy)
  /\ twin = NewSpan(cls)
  /\ calls = <<>>
  /\ installs = 1
  /\ op = [name |-> "new", params |-> params]
  /\ spanNoise = Absent
  /\ otherNoise = Absent

Init ==
  \E cls \in Classes : \E p \in Configs(cls), h \in Entropy : Constructed(cls, p, h)

Next ==
  \/ \E p \in Configs(span.class), h \in Entropy : Set(p, h)
  \/ \E n \in {Absent} \cup NoiseArgs, h \in Entropy : Val(Mid(span.class), n, h)
  \/ \E e \in {"linear", "quadIn"}, f \in BOOLEAN, h \in Entropy :
       Lerp(Lo(span.class), Hi(span.class), e, f, Absent, h)
  \/ \E f \in BOOLEAN, h \in Entropy :
       Random(Lo(span.class), Hi(span.class), f, Absent, h)
  \/ \E f \in BOOLEAN, h \in Entropy :
       RandomLerp(Lo(span.class), Hi(span.class), f, Absent, h)
  \/ \E c \in Curves(span.class), sh \in {"", "linear", "staircase"}, h \in Entropy :
       Curve(c, sh, Lo(span.class), Hi(span.class), FALSE, Absent, h)
  \/ \E pk \in {"", "repeat", "alternate"}, h \in Entropy :
       Array(<<Lo(span.class), Mid(span.class), Hi(span.class)>>, pk, Absent, h)
  \/ \E g \in Gradients(span.class), h \in Entropy : Gradient(g, Absent, h)
  \/ \E tp \in {None} \cup TimerArgs, h \in Entropy : Timer(tp, h)
  \/ \E h \in Entropy : Clone(h)
  \/ \E p \in Progress, r \in Draws \X Draws : Step(p, r, MaxCalls)

Spec == Init /\ [][Next]_vars

(***************************************************************************)
(* SpecLerp: a lerp Span of either class with each easing of the table and *)
(* no timer or noise, stepped at sample progress values.                   *)
(***************************************************************************)
LerpProgress == {0, Unit \div 4, Unit \div 2, Unit}

LerpEnds(cls) == {<<Lo(cls), Hi(cls)>>, <<Hi(cls), Mid(cls)>>}

InitLerp ==
  \E cls \in Classes :
    \E e \in EasingNames, f \in BOOLEAN, b \in LerpEnds(cls) :
      Constructed(cls, [type |-> "lerp", start |-> b[1], end |-> b[2],
                        easing |-> e, forceInteger |-> f], 1)

NextLerp ==
  \/ \E e \in {"linear", "backInOut"}, b \in LerpEnds(span.class) :
       Lerp(b[1], b[2], e, FALSE, Absent, 1)
  \/ \E p \in LerpProgress : Step(p, <<0, 0>>, MaxLerpCalls)

SpecLerp == InitLerp /\ [][NextLerp]_vars

(***************************************************************************)
(* SpecGradient: a gradient Span of either class, stepped below, at,       *)
(* between and above its keys.                                             *)
(***************************************************************************)
GradientProgress ==
  {Num(0 - 1), 0, Unit \div 4, Unit \div 2, (3 * Unit) \div 4, Unit, Num(2)}

GradientKeys ==
  {<<0, Unit \div 2, Unit>>, <<Num(1), Num(2), Num(3)>>, <<0, Num(1), Num(4)>>,
   <<0, Unit>>, <<Num(0 - 2), Num(0 - 1)>>, <<Num(2)>>}

GradientSteps(cls) ==
  {[k \in {ks[i] : i \in DOMAIN ks} |->
      LET i == CHOOSE i \in DOMAIN ks : ks[i] = k
      IN  <<Lo(cls), Hi(cls), Mid(cls)>>[i]] : ks \in GradientKeys}

InitGradient ==
  \E cls \in Classes :
    \E g \in GradientSteps(cls) : Constructed(cls, [type |-> "gradient", steps |-> g], 1)

NextGradient ==
  \/ \E g \in GradientSteps(span.class) : Gradient(g, Absent, 1)
  \/ \E p \in GradientProgress : Step(p, <<0, 0>>, MaxGradientCalls)

SpecGradient == InitGradient /\ [][NextGradient]_vars

(***************************************************************************)
(* SpecTimer: a linear lerp Span with timer parameters, fed deltas.        *)
(***************************************************************************)
TimerSpeeds == {Num(0 - 1), Unit \div 2, Num(1), Num(2)}

TimerDelays == {0, Num(1), Num(2)}

TimerRepeats == {0, 1, 2, 3, Infinity}

TimerParams ==
  {[speed |-> sp, delay |-> d, repeat |-> r, alternate |-> a] :
     sp \in TimerSpeeds, d \in TimerDelays, r \in TimerRepeats, a \in BOOLEAN}

Deltas == {Unit \div 4, Unit \div 2, Unit}

InitTimer ==
  \E cls \in Classes :
    \E tp \in TimerParams :
      Constructed(cls, [type |-> "lerp", start |-> Lo(cls), end |-> Hi(cls)] @@ tp, 1)

NextTimer ==
  \/ \E tp \in {None} \cup TimerArgs : Timer(tp, 1)
  \/ \E d \in Deltas : Step(d, <<0, 0>>, MaxTimerCalls)

SpecTimer == InitTimer /\ [][NextTimer]_vars

(***************************************************************************)
(* Properties                                                              *)
(***************************************************************************)
Last(seq) == seq[Len(seq)]

\* the call was made in the delay window of its timer wrapper
InDelay(c) == c.after.firstCycle

\* C1: in a lerp Span without timer or noise wrapper, for every easing of
\* the table, step(0) returns start and step(1) returns end, no call
\* throws, and the easing maps 0 to 0 and 1 to 1.
C1_LerpEndpoints ==
  \A i \in DOMAIN calls :
    (span._type = "lerp" /\ ~calls[i].before.on /\ ~span.step.noise.on) =>
      /\ ~calls[i].threw
      /\ span._easing \in EasingNames
      /\ easings(span._easing, 0) = 0
      /\ easings(span._easing, Num(1)) = Num(1)
      /\ calls[i].step = 0 => calls[i].ret = span._start
      /\ calls[i].step = Num(1) => calls[i].ret = span._end

C1_Witness ==
  /\ span._type = "lerp" /\ span._easing = "backInOut" /\ span._start # span._end
  /\ ~span.step.timer.on /\ ~span.step.noise.on
  /\ Len(calls) = 2
  /\ calls[1].step = 0 /\ calls[1].ret = span._start
  /\ calls[2].step = Num(1) /\ calls[2].ret = span._end

\* the keys of the installed gradient step function are at least two,
\* numbers, and strictly increasing
GradientWellKeyed(fn) ==
  /\ fn.name = "gradientVectorLerp"
  /\ Len(fn.keys) >= 2
  /\ \A j \in DOMAIN fn.keys : IsFinite(fn.keys[j])
  /\ \A j \in 1..(Len(fn.keys) - 1) : fn.keys[j] < fn.keys[j + 1]

\* v_j + (v_j+1 - v_j) (p - k_j) / (k_j+1 - k_j), per component, to the
\* resolution of the arithmetic: t carries an error of at most 1 / Unit
GradientBetween(lower, upper, kl, ku, p, ret) ==
  /\ DOMAIN ret = DOMAIN lower
  /\ \A c \in DOMAIN lower :
       Abs(ret[c] - (lower[c] + ((upper[c] - lower[c]) * (p - kl)) \div (ku - kl)))
         <= Abs(upper[c] - lower[c]) \div Unit + 1

\* C2: a gradient with at least two sorted keys returns the first value at
\* or below the first key, the last value at or above the last key, exactly
\* v_i at every key k_i, and between k_i and k_i+1 the linear interpolation
\* of v_i and v_i+1 at t = (p - k_i) / (k_i+1 - k_i).
C2_GradientResolve ==
  \A i \in DOMAIN calls :
    LET fn == span.step.fn
        p  == calls[i].step
        n  == Len(fn.keys)
    IN  GradientWellKeyed(fn) =>
          /\ ~calls[i].threw
          /\ p <= fn.keys[1] => calls[i].ret = fn.steps[fn.keys[1]]
          /\ p >= fn.keys[n] => calls[i].ret = fn.steps[fn.keys[n]]
          /\ \A j \in 1..(n - 1) :
               /\ p = fn.keys[j] => calls[i].ret = fn.steps[fn.keys[j]]
               /\ (fn.keys[j] <= p /\ p < fn.keys[j + 1]) =>
                    GradientBetween(fn.steps[fn.keys[j]], fn.steps[fn.keys[j + 1]],
                                    fn.keys[j], fn.keys[j + 1], p, calls[i].ret)

C2_Witness ==
  /\ GradientWellKeyed(span.step.fn)
  /\ span.step.fn.keys = <<0, Unit \div 2, Unit>>
  /\ Len(calls) = 2
  /\ calls[1].step = (3 * Unit) \div 4
  /\ calls[1].ret \notin {span._steps[k] : k \in DOMAIN span._steps}
  /\ calls[2].step = Unit \div 2
  /\ calls[2].ret = span._steps[Unit \div 2]

\* C3: with speed 1, delay 2 and unit steps, the first call and the second
\* call both hand progress 0 to the base step function and return its value
\* there (start, for the lerp).
C3_DelayHoldsFirstCalls ==
  \A i \in DOMAIN calls :
    LET w == calls[1].before
    IN  ( /\ w.on /\ w._speed = Num(1) /\ w._delay = Num(2)
          /\ \A j \in 1..i : calls[j].step = Num(1)
          /\ i <= 2 ) =>
          /\ calls[i].progress = 0
          /\ calls[i].ret = span._start

\* C4: once the timer wrapper has expired, a call hands progress exactly 1
\* to the base step function whatever its step, and leaves timer, repeated,
\* expired and firstCycle as they were.
C4_ExpiredFrozen ==
  [][ ( /\ span.step.timer.on
        /\ span.step.timer.expired
        /\ installs' = installs
        /\ calls' # calls ) =>
        /\ span'.step.timer = span.step.timer
        /\ Last(calls').progress = Num(1)
        /\ Last(calls').ret = span._end ]_vars

C4_Witness ==
  /\ Len(calls) >= 2
  /\ Last(calls).before.on
  /\ Last(calls).before.expired
  /\ Last(calls).step = Unit \div 4
  /\ Last(calls).progress = Num(1)
  /\ Last(calls).after = Last(calls).before

\* C5: with alternate, on a call that is not expired and completes no
\* cycle, the base step function receives the mirror 1 - p of what it would
\* receive without alternate when repeated is odd, and p itself when
\* repeated is even.
C5_AlternateMirrorsOddCycles ==
  \A i \in DOMAIN calls :
    LET b  == calls[i].before
        p0 == timerCall([b EXCEPT !._alternate = FALSE], calls[i].step).progress
    IN  ( /\ b.on /\ b._alternate /\ ~b.expired
          /\ calls[i].after.repeated = b.repeated ) =>
          calls[i].progress = IF b.repeated % 2 = 1 THEN Sub(Num(1), p0) ELSE p0

\* C6: on two consecutive calls with the same positive delta, neither in
\* the delay window nor expired nor completing a cycle, the progress handed
\* to the base step function is the time accumulated in the cycle and is
\* larger on the second call.
C6_DeltasAccumulate ==
  \A i \in 1..(Len(calls) - 1) :
    LET c == calls[i]
        d == calls[i + 1]
    IN  ( /\ c.before.on /\ c.before._speed > 0
          /\ c.step = d.step /\ c.step > 0
          /\ ~InDelay(c) /\ ~InDelay(d)
          /\ ~c.before.expired /\ ~d.after.expired
          /\ d.after.repeated = c.before.repeated ) =>
          /\ d.progress = d.after.timer
          /\ Gt(d.progress, c.progress)

\* C7: a scalar lerp Span with forceInteger returns, without noise, the
\* interpolation rounded to the nearest integer.
C7_ForceIntegerRounds ==
  \A i \in DOMAIN calls :
    ( /\ span.class = "ScalarSpan" /\ span._type = "lerp" /\ span.forceInteger
      /\ span._easing \in EasingNames /\ ~span.step.noise.on ) =>
      calls[i].ret =
        <<MathRound(MathLerp(span._start[1], span._end[1],
                             easings(span._easing, calls[i].progress)))>>

Deterministic == {"value", "lerp", "curve", "gradient"}

\* C8: the clone of a freshly configured Span has its mode and its resolved
\* parameters and, in the deterministic modes, returns the same value at
\* every progress.
C8_CloneRoundTrip ==
  op.name = "clone" =>
    /\ twin._type = span._type
    /\ toJSON(twin) = toJSON(span)
    /\ span._type \in Deterministic =>
         \A p \in Progress :
           stepCall(twin, p, <<0, 0>>).call.ret = stepCall(span, p, <<0, 0>>).call.ret

Without(json, key) == [k \in DOMAIN json \ {key} |-> json[k]]

\* C9: after set(c2) the Span serialises, forceInteger aside, as a fresh
\* Span built from c2 does, and has the step function of that fresh Span.
C9_SetReplacesState ==
  (op.name = "set" /\ installs > 1) =>
    /\ Without(toJSON(span), "forceInteger")
         = Without(toJSON(construct(span.class, op.params, 1)), "forceInteger")
    /\ span.step = construct(span.class, op.params, 1).step

\* C10: in curve mode with a per-axis curve object, each call sets every
\* mapped component to lerp(start[axis], end[axis], curve_axis(progress)),
\* the axis's interpolator using its own shape or else the shared one.
C10_PerAxisCurve ==
  \A i \in DOMAIN calls :
    ( /\ span._type = "curve" /\ span._curve.kind = "axes"
      /\ ~span.step.noise.on ) =>
      /\ ~calls[i].threw
      /\ calls[i].ret =
           curvesAxesInterpolation(span._curve.axes, span._curveShape, span._value,
                                   span._start, span._end, calls[i].progress)

(***************************************************************************)
(* SpecCurve: a curve Span of either class from 0 to 1, so that its value  *)
(* is the interpolator's, with each curve shape, stepped below, at,        *)
(* between and above the keys.                                             *)
(***************************************************************************)
MaxCurveCalls == 2

CurveShapes == {"smooth", "linear", "staircase"}

CurveKeyframes ==
  {CurvePts,
   (Unit \div 4 :> Num(2)) @@ (Unit \div 2 :> Num(4)) @@ (Unit :> Num(1)),
   (0 :> Num(1)) @@ (Unit :> Num(3))}

CurveProgress ==
  {0 - Unit \div 4, 0, Unit \div 4, Unit \div 2, (3 * Unit) \div 4, Unit,
   (5 * Unit) \div 4}

One(cls) == IF cls = "ScalarSpan" THEN Num(1) ELSE <<Num(1), Num(1)>>

InitCurve ==
  \E cls \in Classes :
    \E k \in CurveKeyframes, sh \in CurveShapes :
      Constructed(cls, [type |-> "curve", curve |-> [kind |-> "value", pts |-> k],
                        curveShape |-> sh, start |-> Lo(cls), end |-> One(cls)], 1)

NextCurve ==
  \/ \E k \in CurveKeyframes, sh \in CurveShapes :
       Curve([kind |-> "value", pts |-> k], sh, Lo(span.class), One(span.class),
             FALSE, Absent, 1)
  \/ \E p \in CurveProgress : Step(p, <<0, 0>>, MaxCurveCalls)

SpecCurve == InitCurve /\ [][NextCurve]_vars

\* a keyframe curve Span from 0 to 1 without timer or noise
PlainCurve ==
  /\ span._type = "curve" /\ span._curve.kind = "value"
  /\ ~span.step.timer.on /\ ~span.step.noise.on
  /\ \A c \in DOMAIN span._start : span._start[c] = 0 /\ span._end[c] = Num(1)

\* the value v in every component
Uniform(v) == [c \in DOMAIN span._start |-> v]

\* C11: the staircase shape returns value_i for key_i <= x < key_i+1, the
\* first value at or below the first key and the last value at or above
\* the last key.
C11_StaircaseHolds ==
  \A i \in DOMAIN calls :
    LET pts == span._curve.pts
        ks  == SortAsc(DOMAIN pts)
        n   == Len(ks)
        x   == calls[i].step
    IN  (PlainCurve /\ span._curveShape = "staircase") =>
          /\ ~calls[i].threw
          /\ x <= ks[1] => calls[i].ret = Uniform(pts[ks[1]])
          /\ x >= ks[n] => calls[i].ret = Uniform(pts[ks[n]])
          /\ \A j \in 1..(n - 1) :
               (ks[j] <= x /\ x < ks[j + 1]) => calls[i].ret = Uniform(pts[ks[j]])

\* C12: the linear and the smooth shape return value_i exactly at every
\* key_i, first, interior and last, and the linear shape returns
\* y0 + (y1 - y0) (x - x0) / (x1 - x0) between two consecutive keys.
C12_PassesThroughKeys ==
  \A i \in DOMAIN calls :
    LET pts == span._curve.pts
        ks  == SortAsc(DOMAIN pts)
        x   == calls[i].step
    IN  (PlainCurve /\ span._curveShape \in {"smooth", "linear"}) =>
          /\ ~calls[i].threw
          /\ x \in DOMAIN pts => calls[i].ret = Uniform(pts[x])
          /\ span._curveShape = "linear" =>
               \A j \in 1..(Len(ks) - 1) :
                 (ks[j] <= x /\ x <= ks[j + 1]) =>
                   GradientBetween(Uniform(pts[ks[j]]), Uniform(pts[ks[j + 1]]),
                                   ks[j], ks[j + 1], x, calls[i].ret)

C12_Witness ==
  /\ PlainCurve /\ span._curveShape = "smooth"
  /\ Len(SortAsc(DOMAIN span._curve.pts)) = 3
  /\ Len(calls) = 2
  /\ calls[1].step = Unit \div 2
  /\ calls[1].ret = Uniform(span._curve.pts[Unit \div 2])
  /\ calls[2].step = (3 * Unit) \div 4
  /\ calls[2].ret \notin {Uniform(span._curve.pts[k]) : k \in DOMAIN span._curve.pts}

\* C13: after a gradient is configured from a non-empty set of numeric keys
\* on any scale, every stored key is a number in [0,1], the stored keys are
\* the (key - min) / (max - min) of the supplied keys, the key list of the
\* resolver is sorted ascending, and with at least two distinct supplied
\* keys the smallest stored key is 0 and the largest is 1.
C13_GradientNormalised ==
  (op.name = "new" /\ op.params.type = "gradient") =>
    LET given == DOMAIN op.params.steps
        lo    == CHOOSE k \in given : \A o \in given : k <= o
        hi    == CHOOSE k \in given : \A o \in given : o <= k
        keys  == span.step.fn.keys
    IN  /\ DOMAIN span._steps = {keys[j] : j \in DOMAIN keys}
        /\ \A j \in DOMAIN keys : IsFinite(keys[j]) /\ 0 <= keys[j] /\ keys[j] <= Num(1)
        /\ \A j \in 1..(Len(keys) - 1) : keys[j] <= keys[j + 1]
        /\ Cardinality(given) >= 2 =>
             /\ DOMAIN span._steps = {((k - lo) * Unit) \div (hi - lo) : k \in given}
             /\ keys[1] = 0
             /\ keys[Len(keys)] = Num(1)

(***************************************************************************)
(* SpecArray: an array Span of either class over one to four distinct      *)
(* elements, with each pick, with or without a timer, called with          *)
(* different progress values.                                              *)
(***************************************************************************)
MaxArrayCalls == 7

ArrayInputs(cls) ==
  {<<Mid(cls)>>, <<Lo(cls), Hi(cls)>>, <<Lo(cls), Mid(cls), Hi(cls)>>,
   <<Lo(cls), Mid(cls), Hi(cls), One(cls)>>}

ArrayPicks == {"alternate", "repeat", "random"}

ArrayProgress == {0, (3 * Unit) \div 4}

InitArray ==
  \E cls \in Classes :
    \E a \in ArrayInputs(cls), pk \in ArrayPicks,
       tp \in {None, [speed |-> Num(2)], [delay |-> Num(1), repeat |-> 1]} :
      Constructed(cls, [type |-> "array", array |-> a, pick |-> pk] @@ tp, 1)

NextArray ==
  \/ \E a \in ArrayInputs(span.class), pk \in ArrayPicks : Array(a, pk, Absent, 1)
  \/ \E p \in ArrayProgress : Step(p, <<0, 0>>, MaxArrayCalls)

SpecArray == InitArray /\ [][NextArray]_vars

\* 0, 1, ..., m, m - 1, ..., 1, 0, 1, ... at position k, counted from 0
Triangle(k, m) ==
  IF (k % (2 * m)) <= m THEN k % (2 * m) ELSE (2 * m) - (k % (2 * m))

\* the position, counted from 0, of an element in the array of the Span
IndexOf(element) == (CHOOSE j \in DOMAIN span._array : span._array[j] = element) - 1

\* C14: an array Span picking "alternate" over n >= 2 elements returns on
\* its calls the elements at 0, 1, ..., n-1, n-2, ..., 1, 0, 1, ...:
\* consecutive positions differ by exactly 1, the step counter advances
\* once per call, and the progress argument has no influence.
C14_AlternatePingPong ==
  ( /\ span._type = "array" /\ span._pick = "alternate"
    /\ Len(span._array) >= 2 /\ ~span.step.noise.on ) =>
    /\ span.step.pickStep = Len(calls)
    /\ \A i \in DOMAIN calls :
         /\ ~calls[i].threw
         /\ calls[i].ret = span._array[Triangle(i - 1, Len(span._array) - 1) + 1]
    /\ \A i \in 1..(Len(calls) - 1) :
         Abs(IndexOf(calls[i + 1].ret) - IndexOf(calls[i].ret)) = 1

C14_Witness ==
  /\ span._type = "array" /\ span._pick = "alternate" /\ Len(span._array) = 3
  /\ Len(calls) = 6
  /\ [i \in 1..6 |-> IndexOf(calls[i].ret)] = <<0, 1, 2, 1, 0, 1>>
  /\ calls[1].step # calls[2].step
  /\ span.step.pickStep = 6

\* C15: a configuration object of type "random" makes "random" the active
\* mode, so that the Span serialises with type "random", and installs the
\* sampler that draws each component on its own.
C15_RandomConfigIsRandom ==
  ( /\ op.name \in {"new", "set"}
    /\ Has(op.params, "type")
    /\ op.params.type = "random" ) =>
    /\ span._type = "random"
    /\ toJSON(span).type = "random"
    /\ span.step.fn.name = "randomVector"

\* C16: in every mode, with or without the timer and noise wrappers, a call
\* that returns hands back the Span's own output value, written in place:
\* never another object such as an element of the array, never a bare
\* number, never nothing.
C16_ReturnsOwnValue ==
  \A i \in DOMAIN calls : ~calls[i].threw => calls[i].object = "_value"

\* an optional field of a serialisation, when present, is not at its default
NonDefault(json, key, default) == Has(json, key) => json[key] # default

\* C17: the serialisation of a Span holds an optional field only when the
\* field is not at its default, and a lerp Span configured with defaults
\* only serialises to exactly type, start and end.
C17_SerialisesNonDefaultsOnly ==
  LET json == toJSON(span)
  IN  /\ NonDefault(json, "forceInteger", FALSE)
      /\ NonDefault(json, "speed", Num(1))
      /\ NonDefault(json, "delay", 0)
      /\ NonDefault(json, "repeat", Infinity)
      /\ NonDefault(json, "alternate", FALSE)
      /\ NonDefault(json, "easing", "linear")
      /\ NonDefault(json, "curveShape", "smooth")
      /\ NonDefault(json, "pick", "random")
      /\ ( /\ op.name \in {"new", "set"}
           /\ Has(op.params, "type")
           /\ op.params.type = "lerp"
           /\ DOMAIN op.params = {"type", "start", "end"} ) =>
           DOMAIN json = {"type", "start", "end"}

(***************************************************************************)
(* SpecMisuse: Spans of either class configured with a name that is not in *)
(* the easing table, the curve shapes or the picks, or with an empty       *)
(* gradient, curve or array, and then stepped.                             *)
(***************************************************************************)
MaxMisuseCalls == 2

UnknownNamed(cls) ==
  {[type |-> "lerp", start |-> Lo(cls), end |-> Hi(cls), easing |-> "bogus"],
   [type |-> "curve", start |-> Lo(cls), end |-> Hi(cls), curveShape |-> "bogus",
    curve |-> [kind |-> "value", pts |-> CurvePts]],
   [type |-> "array", array |-> <<Lo(cls), Mid(cls), Hi(cls)>>, pick |-> "bogus"]}

EmptyInputs(cls) ==
  {[type |-> "gradient", steps |-> <<>>]}
  \cup {[type |-> "curve", start |-> Lo(cls), end |-> Hi(cls), curveShape |-> sh,
         curve |-> [kind |-> "value", pts |-> <<>>]] : sh \in CurveShapes}
  \cup {[type |-> "array", array |-> <<>>, pick |-> pk] :
          pk \in {"random", "repeat", "alternate"}}

Misconfigured(cls) ==
  UnknownNamed(cls) \cup EmptyInputs(cls)
  \cup {[type |-> "lerp", start |-> Lo(cls), end |-> Hi(cls)]}

MisuseProgress == {0, Unit \div 2, Unit}

InitMisuse ==
  \E cls \in Classes : \E p \in Misconfigured(cls) : Constructed(cls, p, 1)

NextMisuse ==
  \/ \E p \in Misconfigured(span.class) : Set(p, 1)
  \/ \E p \in MisuseProgress : Step(p, <<0, 0>>, MaxMisuseCalls)

SpecMisuse == InitMisuse /\ [][NextMisuse]_vars

\* the configuration names an easing, a curve shape or a pick that the
\* source does not define
NamesUnknown(params) ==
  \/ Has(params, "easing") /\ params.easing \notin EasingNames
  \/ Has(params, "curveShape") /\ params.curveShape \notin CurveShapes
  \/ Has(params, "pick") /\ params.pick \notin {"random", "repeat", "alternate"}

\* C18: a configuration naming an unknown easing, curve shape or pick is
\* rejected when it is given: set installs no step function for it.
C18_UnknownNamesRejected ==
  [][ (op'.name = "set" /\ NamesUnknown(op'.params)) => span'.step = span.step ]_vars

\* the Span was configured with a gradient, a curve or an array of no entries
EmptyConfigured ==
  \/ span._type = "gradient" /\ DOMAIN span._steps = {}
  \/ span._type = "curve" /\ span._curve.kind = "value" /\ DOMAIN span._curve.pts = {}
  \/ span._type = "array" /\ span._array = <<>>

\* C19: configuring a gradient, a curve or an array with no entries fails
\* when it is configured and leaves no step function that later throws or
\* returns undefined.
C19_EmptyInputsRejected ==
  EmptyConfigured =>
    \A i \in DOMAIN calls : ~calls[i].threw /\ calls[i].object # "undefined"

(***************************************************************************)
(* SpecNoise: two SpanNoise objects on their own, configured with and      *)
(* without each parameter, then set, copied one into the other and cloned. *)
(***************************************************************************)
NoiseParams ==
  {sd @@ fr @@ ac @@ sp :
     sd \in {None, [seed |-> 0], [seed |-> 7]},
     fr \in {None, [frequency |-> Num(2)]},
     ac \in {None, [amplitude |-> Num(3), cycles |-> Num(4)]},
     sp \in {None, [speed |-> Unit \div 10], [speed |-> Num(2)]}}

\* the states Math.random can be in when a generator is created unseeded
NoiseEntropy == {1, 2}

NoiseSet(params, entropy) ==
  /\ spanNoise' = SpanNoiseSet(spanNoise, params, entropy)
  /\ op' = [name |-> "noise.set"]
  /\ UNCHANGED <<span, twin, calls, installs, otherNoise>>

NoiseCopy(entropy) ==
  /\ spanNoise' = SpanNoiseCopy(spanNoise, otherNoise, entropy)
  /\ op' = [name |-> "noise.copy"]
  /\ UNCHANGED <<span, twin, calls, installs, otherNoise>>

NoiseClone(entropy) ==
  /\ otherNoise' = SpanNoiseClone(spanNoise, entropy)
  /\ op' = [name |-> "noise.clone"]
  /\ UNCHANGED <<span, twin, calls, installs, spanNoise>>

InitNoise ==
  /\ span = NewSpan("ScalarSpan")
  /\ twin = NewSpan("ScalarSpan")
  /\ calls = <<>>
  /\ installs = 0
  /\ \E p \in NoiseParams, q \in NoiseParams, h \in NoiseEntropy \X NoiseEntropy :
       /\ spanNoise = SpanNoiseCreate(p, h[1])
       /\ otherNoise = SpanNoiseCreate(q, h[2])
       /\ op = [name |-> "noise.new"]

NextNoise ==
  \/ \E p \in NoiseParams, h \in NoiseEntropy : NoiseSet(p, h)
  \/ \E h \in NoiseEntropy : NoiseCopy(h)
  \/ \E h \in NoiseEntropy : NoiseClone(h)

SpecNoise == InitNoise /\ [][NextNoise]_vars

\* the configuration of a SpanNoise
NoiseConfiguration(n) == <<n._seed, n.frequency, n.amplitude, n.cycle, n.speed>>

\* C20: after copy the receiver has the seed, frequency, amplitude, cycle
\* and speed of the source, and after clone the new SpanNoise has those of
\* the one it was cloned from, for every value of the parameters.
C20_NoiseCopyClonePreserve ==
  /\ op.name = "noise.copy" =>
       NoiseConfiguration(spanNoise) = NoiseConfiguration(otherNoise)
  /\ op.name = "noise.clone" =>
       NoiseConfiguration(otherNoise) = NoiseConfiguration(spanNoise)

C23_ExpiredIffRepeated ==
  LET w == span.step.timer
  IN  w.on =>
        /\ w.expired <=> (w.repeated >= 1 /\ Ge(w.repeated, w._repeat))
        /\ w._repeat = Infinity => ~w.expired
        /\ \A i \in DOMAIN calls :
             (~calls[i].before.expired /\ calls[i].after.expired) =>
               /\ calls[i].after.repeated = calls[i].before.repeated + 1
               /\ calls[i].after.repeated = MathMax(1, w._repeat)

C23_Witness ==
  /\ span.step.timer.on /\ span.step.timer._repeat = 2
  /\ span.step.timer.expired /\ span.step.timer.repeated = 2
  /\ Len(calls) = 3
  /\ ~calls[2].after.expired /\ calls[2].after.repeated = 1
  /\ ~calls[3].before.expired

C21_SameSeedSameNoise ==
  (spanNoise # Absent /\ otherNoise # Absent
     /\ spanNoise._seed # Undefined /\ spanNoise._seed = otherNoise._seed) =>
    /\ spanNoise._simplex2D = otherNoise._simplex2D
    /\ spanNoise._simplex3D = otherNoise._simplex3D
    /\ \A x \in {0, Unit} :
         simplex(spanNoise._simplex2D, x, 0, 0) = simplex(otherNoise._simplex2D, x, 0, 0)

\* C24: after any sequence of configuration calls the installed step
\* function is wrapped by the timer wrapper exactly when the Span reports
\* temporal parameters in its serialisation, and the wrapper captured the
\* speed, delay, repeat and alternate reported there; a timer call with
\* defaults after a non-default one removes the wrapper.
C24_WrapperMatchesParameters ==
  LET w    == span.step.timer
      json == toJSON(span)
  IN  /\ w.on <=> Has(json, "speed")
      /\ w.on => /\ w._speed = json.speed
                 /\ w._delay = json.delay
                 /\ w._repeat = json.repeat
                 /\ w._alternate = json.alternate

(***************************************************************************)
(* SpecTimerLive: a linear lerp Span with a finite repeat count, called    *)
(* again and again with non-zero steps.  Only the latest call is kept; op  *)
(* tells one call from the next, and the caller never stops calling.       *)
(***************************************************************************)
\* the caller makes one more call
Called == op' = [name |-> "step", odd |-> ~Get(op, "odd", FALSE)]

Invoke(step) ==
  /\ Called
  /\ \E r \in {stepCall(span, step, <<0, 0>>)} :
       /\ span' = r.span
       /\ calls' = <<r.call>>
  /\ UNCHANGED <<twin, installs, spanNoise, otherNoise>>

InitTimerLive ==
  \E cls \in Classes :
    \E tp \in {p \in TimerParams : p.repeat # Infinity} :
      Constructed(cls, [type |-> "lerp", start |-> Lo(cls), end |-> Hi(cls)] @@ tp, 1)

NextTimerLive == \E d \in Deltas : Invoke(d)

SpecTimerLive == InitTimerLive /\ [][NextTimerLive]_vars /\ WF_op(Called)

\* C26: with a finite repeat count, a speed other than 0, any finite delay
\* and a caller that keeps calling with non-zero steps, the timer wrapper
\* eventually is expired and stays expired for ever.
C26_EventuallyExpired == <>[](span.step.timer.on /\ span.step.timer.expired)

C26_Witness ==
  /\ span.step.timer.on /\ span.step.timer.expired
  /\ span.step.timer._repeat = 3 /\ span.step.timer._delay = Num(2)
  /\ span.step.timer.repeated = 3
  /\ calls # <<>> /\ Last(calls).before.expired

\* C27: an array Span of two or more elements picking "repeat" or
\* "alternate" under a timer wrapper does not advance its picker on calls in the delay window, so that these
\* calls and the first call after the window return the first element, and
\* after expiry every call returns the same element.
C27_TimerFreezesPicker ==
  ( /\ span._type = "array" /\ span._pick \in {"repeat", "alternate"}
    /\ Len(span._array) >= 2
    /\ span.step.timer.on /\ ~span.step.noise.on ) =>
    /\ \A i \in DOMAIN calls :
         (i = 1 \/ InDelay(calls[i - 1])) => calls[i].ret = span._array[1]
    /\ \A i \in 1..(Len(calls) - 1) :
         calls[i].before.expired => calls[i + 1].ret = calls[i].ret

\* C29: for a non-empty array of any length and any pick, every call of the
\* array step function returns an element of the array, never undefined;
\* so too for one element with pick "alternate".
C29_PicksAnElement ==
  (span._type = "array" /\ Len(span._array) >= 1 /\ ~span.step.noise.on) =>
    \A i \in DOMAIN calls :
      /\ ~calls[i].threw
      /\ calls[i].object # "undefined"
      /\ calls[i].ret \in {span._array[j] : j \in DOMAIN span._array}

(***************************************************************************)
(* SpecColor: the noise wrapper around the step function of a colour Span. *)
(* spanNoise is the SpanNoise, span the state of the wrapper's closure     *)
(* (its clock and its own Color, white when created), and each call is     *)
(* made with the colour the wrapped step function returns on it.           *)
(***************************************************************************)
MaxColorCalls == 3

ColorStep(value, step) ==
  /\ Len(calls) < MaxColorCalls
  /\ \E n \in {_colorWrapper(spanNoise, noiseClock(span, spanNoise, step, Unit \div 100),
                             value)} :
       /\ span' = n
       /\ calls' = Append(calls, [step |-> step, value |-> value, t |-> n.t,
                                  ret |-> n.color])
  /\ op' = [name |-> "step"]
  /\ UNCHANGED <<twin, installs, spanNoise, otherNoise>>

InitColor ==
  /\ span = [on |-> TRUE, t |-> 0, timer |-> 0, color |-> <<Unit, Unit, Unit>>]
  /\ \E p \in {[seed |-> 7], [seed |-> 7, amplitude |-> 0],
               [seed |-> 3, amplitude |-> Num(2), frequency |-> Num(2)]} :
       spanNoise = SpanNoiseCreate(p, 1)
  /\ twin = Absent
  /\ otherNoise = Absent
  /\ calls = <<>>
  /\ installs = 0
  /\ op = [name |-> "new"]

NextColor ==
  \E value \in {<<Unit, 0, 0>>, <<0, 0, 0>>, <<Unit \div 2, Unit \div 4, Unit>>},
     step \in {Unit \div 2, Unit} : ColorStep(value, step)

SpecColor == InitColor /\ [][NextColor]_vars

\* C28: each call of the noise wrapper of a colour Span returns the
\* perturbation of the colour the wrapped step function produced on that
\* call, whatever the wrapper returned before; with amplitude 0 it returns
\* that colour itself.
C28_ColorNoiseOfBase ==
  \A i \in DOMAIN calls :
    /\ calls[i].ret = colorNoise(spanNoise, calls[i].value, calls[i].t)
    /\ spanNoise.amplitude = 0 => calls[i].ret = calls[i].value

(***************************************************************************)
(* SpecEuler: an EulerSpan built from a configuration with a start and an  *)
(* end, with or without the slerp flag, and configured again by set.       *)
(***************************************************************************)
MaxEulerSets == 5

EulerConfigs ==
  {[type |-> ty] @@ sl :
     ty \in {"lerp", "randomLerp", "curve"},
     sl \in {None, [slerp |-> TRUE], [slerp |-> FALSE]}}

EulerSet(params) ==
  /\ installs < MaxEulerSets
  /\ span' = eulerSet(span, params)
  /\ installs' = installs + 1
  /\ op' = [name |-> "set", params |-> params]
  /\ UNCHANGED <<twin, calls, spanNoise, otherNoise>>

\* a direct call span.lerp(start, end) of the override
EulerLerp ==
  /\ installs < MaxEulerSets
  /\ span' = eulerLerp(span)
  /\ installs' = installs + 1
  /\ op' = [name |-> "lerp"]
  /\ UNCHANGED <<twin, calls, spanNoise, otherNoise>>

\* constructor: super(); this.slerp = params.slerp ?? true; this.set(params)
InitEuler ==
  /\ \E p \in EulerConfigs :
       /\ span = eulerSet([class |-> "EulerSpan", slerp |-> Get(p, "slerp", TRUE),
                           _lerp |-> "Span._lerp", _type |-> "undefined",
                           step |-> "undefined"], p)
       /\ op = [name |-> "new", params |-> p]
  /\ installs = 1
  /\ twin = Absent
  /\ calls = <<>>
  /\ spanNoise = Absent
  /\ otherNoise = Absent

NextEuler ==
  \/ \E p \in EulerConfigs : EulerSet(p)
  \/ EulerLerp

SpecEuler == InitEuler /\ [][NextEuler]_vars

\* C30: in each mode with a start and an end (lerp, randomLerp, curve) an
\* EulerSpan interpolates by the strategy its slerp flag selects now,
\* spherical when true and component-wise when false, whatever was
\* configured before and whether or not lerp was ever called.
C30_EulerFollowsSlerpFlag ==
  span._type \in {"lerp", "randomLerp", "curve"} =>
    span.step = IF span.slerp THEN "_slerp" ELSE "_eulerLerp"

=============================================================================
